---- MODULE Spec2Model ----
(***************************************************************************)
(* Model of rust/api/src/main.rs: the threat-detection API.                *)
(*                                                                         *)
(* Shared state is AppState (an LruCache behind a Mutex and DetectionStats *)
(* behind a Mutex).  Each worker runs one handler at a time; a handler is  *)
(* cut into steps at its lock acquisitions and releases.  Strings are      *)
(* sequences of characters, f32 values are integers in units of 2^-26      *)
(* (every f32 in [0.125, 2) is a multiple of it) and f32 addition rounds   *)
(* to nearest, ties to even, as the hardware does.                         *)
(***************************************************************************)
EXTENDS Integers, Sequences, FiniteSets, TLC

(***************************************************************************)
(* Bounds of the model.                                                    *)
(***************************************************************************)
\* LruCache capacity; the reference configuration is 10000 (main.rs:365).
Capacity == 2
\* Length of the latency window; the code keeps 1000 (main.rs:160).
LatencyWindow == 3
\* Number of single-item calls (hits and misses) a behaviour may make.
MaxCalls == 4
\* The values start.elapsed().as_millis() takes.
Elapsed == {0, 1}

(***************************************************************************)
(* Strings: UTF-8 text as a sequence of characters.                        *)
(***************************************************************************)
\* Bytes a character takes in UTF-8; the model's alphabet has one
\* two-byte letter and one two-byte numeric character.
Utf8Len(c) == IF c \in {"é", "½"} THEN 2 ELSE 1

\* str::len(): the length in bytes, the sum of the characters' widths.
ByteLen(s) ==
    LET count(w) == Cardinality({i \in DOMAIN s : Utf8Len(s[i]) = w})
    IN  count(1) + 2 * count(2) + 3 * count(3) + 4 * count(4)

\* str::contains(pat) for a string pattern.
Contains(s, pat) ==
    \E i \in 0..(Len(s) - Len(pat)) : SubSeq(s, i + 1, i + Len(pat)) = pat

\* char::is_numeric(): Unicode categories Nd, Nl, No.
IsNumeric(c) == c \in {"0", "1", "2", "3", "4", "5", "6", "7", "8", "9", "½"}

\* str::is_char_boundary(n).
IsCharBoundary(s, n) ==
    \E k \in 0..Len(s) : ByteLen(SubSeq(s, 1, k)) = n

\* &s[n..]: the suffix from byte offset n; the index expression panics when
\* n is past the end or inside a character.
SliceFrom(s, n) ==
    IF IsCharBoundary(s, n)
    THEN LET k == CHOOSE j \in 0..Len(s) : ByteLen(SubSeq(s, 1, j)) = n
         IN  [panic |-> FALSE, str |-> SubSeq(s, k + 1, Len(s))]
    ELSE [panic |-> TRUE, str |-> <<>>]

\* str::starts_with(|c: char| c.is_numeric()).
StartsWithNumeric(s) == s # <<>> /\ IsNumeric(Head(s))

(***************************************************************************)
(* f32 arithmetic in units of 2^-26.                                       *)
(***************************************************************************)
\* Spacing of f32 values around x: 2^-23 from 1.0, 2^-24 from 0.5,
\* 2^-25 from 0.25, 2^-26 below.
Ulp(x) == IF x >= 67108864 THEN 8
          ELSE IF x >= 33554432 THEN 4
          ELSE IF x >= 16777216 THEN 2
          ELSE 1

\* Round to nearest representable value, ties to even.
F32Round(x) ==
    LET u == Ulp(x)
        q == x \div u
        r == x % u
    IN  IF 2 * r < u THEN q * u
        ELSE IF 2 * r > u THEN (q + 1) * u
        ELSE IF q % 2 = 0 THEN q * u
        ELSE (q + 1) * u

\* confidence += w on f32.
F32Add(a, b) == F32Round(a + b)

\* f32::min.
F32Min(a, b) == IF a <= b THEN a ELSE b

\* The f32 literals of the classifiers (value * 2^26, rounded to f32).
F32_0_2 == 13421773
F32_0_3 == 20132660
F32_0_4 == 26843546
F32_0_45 == 30198988
F32_0_65 == 43620760
F32_0_7 == 46976204
F32_0_75 == 50331648
F32_0_85 == 57042536
F32_1_0 == 67108864
\* url.len() > 200
LongUrlLimit == 200

(***************************************************************************)
(* Text literals of the source.                                            *)
(***************************************************************************)
S_http == <<"h", "t", "t", "p", ":", "/", "/">>
S_paypa == <<"p", "a", "y", "p", "a">>
S_amaz0n == <<"a", "m", "a", "z", "0", "n">>
S_go0gle == <<"g", "o", "0", "g", "l", "e">>
S_verify == <<"v", "e", "r", "i", "f", "y">>
S_confirm == <<"c", "o", "n", "f", "i", "r", "m">>
S_eval == <<"e", "v", "a", "l">>
S_exec == <<"e", "x", "e", "c">>
S_atob == <<"a", "t", "o", "b">>
S_fromCharCode == <<"S", "t", "r", "i", "n", "g", ".", "f", "r", "o", "m",
                    "C", "h", "a", "r", "C", "o", "d", "e">>
S_script == <<"<", "s", "c", "r", "i", "p", "t">>
S_onclick == <<"o", "n", "c", "l", "i", "c", "k">>
S_url == <<"u", "r", "l">>
S_code == <<"c", "o", "d", "e">>
S_action == <<"a", "c", "t", "i", "o", "n">>

\* Option<String>::None for the context.
NoContext == [none |-> TRUE]
\* What a call that panicked yields in place of a response.
Panicked == [panic |-> TRUE]

(***************************************************************************)
(* The classifiers.                                                        *)
(***************************************************************************)
\* The signal checks of detect_phishing, in source order.
LongUrlSignal(url) == ByteLen(url) > LongUrlLimit

BrandSignal(url) ==
    Contains(url, S_paypa) \/ Contains(url, S_amaz0n) \/ Contains(url, S_go0gle)

\* url.contains("http://") && url[7..].starts_with(numeric); && evaluates
\* the slice only when the first operand holds.
IpSignalPanics(url) == Contains(url, S_http) /\ SliceFrom(url, 7).panic

IpSignal(url) ==
    Contains(url, S_http) /\ StartsWithNumeric(SliceFrom(url, 7).str)

ContextSignal(context) ==
    /\ context # NoContext
    /\ Contains(context, S_verify) \/ Contains(context, S_confirm)

PhishingSeverity(confidence) ==
    IF confidence >= F32_0_85 THEN "critical"
    ELSE IF confidence >= F32_0_65 THEN "high"
    ELSE IF confidence >= F32_0_45 THEN "medium"
    ELSE "low"

PhishingThreshold == F32_0_7

\* Variant of detect_phishing that returns the sum as it is, unclamped.
detect_phishing_unclamped(url, context) ==
    LET c1 == IF LongUrlSignal(url) THEN F32Add(0, F32_0_3) ELSE 0
        r1 == IF LongUrlSignal(url) THEN <<"Unusually long URL">> ELSE <<>>
        c2 == IF BrandSignal(url) THEN F32Add(c1, F32_0_4) ELSE c1
        r2 == IF BrandSignal(url)
              THEN Append(r1, "Suspicious domain pattern") ELSE r1
        c3 == IF IpSignal(url) THEN F32Add(c2, F32_0_3) ELSE c2
        r3 == IF IpSignal(url)
              THEN Append(r2, "Using IP address instead of domain") ELSE r2
        c4 == IF ContextSignal(context) THEN F32Add(c3, F32_0_2) ELSE c3
        r4 == IF ContextSignal(context)
              THEN Append(r3, "Context contains phishing keywords") ELSE r3
    IN  IF IpSignalPanics(url) THEN Panicked
        ELSE [is_threat |-> c4 >= PhishingThreshold,
              threat_type |-> "phishing",
              confidence |-> c4,
              severity |-> PhishingSeverity(c4),
              reasons |-> IF r4 = <<>> THEN <<"URL appears legitimate">> ELSE r4,
              latency_ms |-> 0,
              cached |-> FALSE]

detect_phishing(url, context) ==
    LET c1 == IF LongUrlSignal(url) THEN F32Add(0, F32_0_3) ELSE 0
        r1 == IF LongUrlSignal(url) THEN <<"Unusually long URL">> ELSE <<>>
        c2 == IF BrandSignal(url) THEN F32Add(c1, F32_0_4) ELSE c1
        r2 == IF BrandSignal(url)
              THEN Append(r1, "Suspicious domain pattern") ELSE r1
        c3 == IF IpSignal(url) THEN F32Add(c2, F32_0_3) ELSE c2
        r3 == IF IpSignal(url)
              THEN Append(r2, "Using IP address instead of domain") ELSE r2
        c4 == IF ContextSignal(context) THEN F32Add(c3, F32_0_2) ELSE c3
        r4 == IF ContextSignal(context)
              THEN Append(r3, "Context contains phishing keywords") ELSE r3
    IN  IF IpSignalPanics(url) THEN Panicked
        ELSE [is_threat |-> c4 >= PhishingThreshold,
              threat_type |-> "phishing",
              confidence |-> F32Min(c4, F32_1_0),
              severity |-> PhishingSeverity(c4),
              reasons |-> IF r4 = <<>> THEN <<"URL appears legitimate">> ELSE r4,
              latency_ms |-> 0,
              cached |-> FALSE]

EvalSignal(code) == Contains(code, S_eval) \/ Contains(code, S_exec)

ObfuscationSignal(code) ==
    Contains(code, S_atob) \/ Contains(code, S_fromCharCode)

InjectionSignal(code) == Contains(code, S_script) \/ Contains(code, S_onclick)

\* Variant of MalwareSeverity with the phishing classifier's fourth tier.
MalwareSeverityWithLow(confidence) ==
    IF confidence >= F32_0_85 THEN "critical"
    ELSE IF confidence >= F32_0_65 THEN "high"
    ELSE IF confidence >= F32_0_45 THEN "medium"
    ELSE "low"

MalwareSeverity(confidence) ==
    IF confidence >= F32_0_85 THEN "critical"
    ELSE IF confidence >= F32_0_65 THEN "high"
    ELSE "medium"

MalwareThreshold == F32_0_75

detect_malware(code) ==
    LET c1 == IF EvalSignal(code) THEN F32Add(0, F32_0_3) ELSE 0
        r1 == IF EvalSignal(code) THEN <<"Suspicious function detected">> ELSE <<>>
        c2 == IF ObfuscationSignal(code) THEN F32Add(c1, F32_0_3) ELSE c1
        r2 == IF ObfuscationSignal(code)
              THEN Append(r1, "Code obfuscation detected") ELSE r1
        c3 == IF InjectionSignal(code) THEN F32Add(c2, F32_0_3) ELSE c2
        r3 == IF InjectionSignal(code)
              THEN Append(r2, "Script injection pattern found") ELSE r2
    IN  [is_threat |-> c3 >= MalwareThreshold,
         threat_type |-> "malware",
         confidence |-> F32Min(c3, F32_1_0),
         severity |-> MalwareSeverity(c3),
         reasons |-> IF r3 = <<>> THEN <<"Code appears safe">> ELSE r3,
         latency_ms |-> 0,
         cached |-> FALSE]

detect_behavior(action) ==
    [is_threat |-> FALSE,
     threat_type |-> "behavioral",
     confidence |-> 0,
     severity |-> "low",
     reasons |-> <<"Behavior analysis pending">>,
     latency_ms |-> 0,
     cached |-> FALSE]

\* The fallback arm of the match on threat_type.
UnknownResult(latency) ==
    [is_threat |-> FALSE,
     threat_type |-> "unknown",
     confidence |-> 0,
     severity |-> "unknown",
     reasons |-> <<"Unknown threat type">>,
     latency_ms |-> latency,
     cached |-> FALSE]

\* match req.threat_type.as_str() { ... }; elapsed is what the fallback arm
\* reads from the clock (detect_threat) or the literal 0 (detect_batch).
Detect(r, elapsed) ==
    IF r.threat_type = S_url THEN detect_phishing(r.content, r.context)
    ELSE IF r.threat_type = S_code THEN detect_malware(r.content)
    ELSE IF r.threat_type = S_action THEN detect_behavior(r.content)
    ELSE UnknownResult(elapsed)

(***************************************************************************)
(* Requests.  A request is held in the state as the names of its three     *)
(* fields; the tables below give the text each name stands for.            *)
(***************************************************************************)
Repeat(c, n) == [i \in 1..n |-> c]

\* threat_type values: the three the match knows and two it does not.
KindText ==
    [url |-> S_url, code |-> S_code, action |-> S_action,
     file |-> <<"f", "i", "l", "e">>,
     url_http |-> S_url \o <<":">> \o SubSeq(S_http, 1, 4)]

S_ip == S_http \o <<"1">>

\* content values.
ContentText ==
    [x |-> <<"x">>,
     empty |-> <<>>,
     plain |-> <<"a", ".", "i", "o">>,
     \* "http://1paypa"
     brand_ip |-> S_ip \o S_paypa,
     \* "//1paypa": with kind "url:http" it formats to the key of brand_ip
     tail_brand_ip |-> SubSeq(S_http, 6, 7) \o <<"1">> \o S_paypa,
     ip |-> S_ip,
     ip_fraction |-> S_http \o <<"½">>,
     https_ip |-> <<"h", "t", "t", "p", "s", ":", "/", "/", "1">>,
     scheme_only |-> S_http,
     host |-> S_http \o <<"a", "1">>,
     \* "a.io/r/1?u=http://b": the scheme is not at the start, byte 7 is "1"
     late_scheme |-> <<"a", ".", "i", "o", "/", "r", "/", "1", "?", "u", "=">>
                     \o S_http \o <<"b">>,
     \* "ééééhttp://": byte 7 is inside the fourth letter
     multibyte |-> <<"é", "é", "é", "é">> \o S_http,
     brand |-> S_paypa,
     amaz0n |-> S_amaz0n,
     go0gle |-> S_go0gle,
     len200 |-> Repeat("a", LongUrlLimit),
     long |-> Repeat("a", LongUrlLimit + 1),
     long_brand |-> S_paypa \o Repeat("a", LongUrlLimit),
     long_ip |-> S_ip \o Repeat("a", LongUrlLimit),
     long_brand_ip |-> S_ip \o S_paypa \o Repeat("a", LongUrlLimit),
     \* "http://192.168.1.1/login?verify=1"
     login |-> S_http \o <<"1", "9", "2", ".", "1", "6", "8", ".", "1", ".", "1",
                           "/", "l", "o", "g", "i", "n", "?">>
               \o S_verify \o <<"=", "1">>,
     eval |-> S_eval,
     exec |-> S_exec,
     atob |-> S_atob,
     fromCharCode |-> S_fromCharCode,
     script |-> S_script,
     onclick |-> S_onclick,
     \* "eval(atob)"
     eval_atob |-> S_eval \o <<"(">> \o S_atob \o <<")">>,
     \* "<script>eval(atob)"
     script_eval_atob |-> S_script \o <<">">> \o S_eval \o <<"(">> \o S_atob \o <<")">>]

\* context values; none is Option::None.
ContextText ==
    [none |-> NoContext,
     empty |-> <<>>,
     hello |-> <<"h", "e", "l", "l", "o">>,
     verify |-> S_verify,
     confirm |-> S_confirm,
     please_verify |-> <<"p", "l", "e", "a", "s", "e", " ">> \o S_verify]

\* The ThreatDetectionRequest a triple of names stands for.
Body(id) ==
    [threat_type |-> KindText[id[1]],
     content |-> ContentText[id[2]],
     context |-> ContextText[id[3]]]

AllRequests == (DOMAIN KindText) \X (DOMAIN ContentText) \X (DOMAIN ContextText)

RqThreat == <<"url", "brand_ip", "none">>
RqCollide == <<"url_http", "tail_brand_ip", "none">>
RqCode == <<"code", "eval_atob", "none">>
RqAction == <<"action", "x", "none">>
RqFile == <<"file", "x", "none">>
RqPanic == <<"url", "multibyte", "none">>

RqClamped == <<"url", "long_brand_ip", "verify">>
RqLegitimate == <<"url", "plain", "none">>
RqSafeCode == <<"code", "x", "none">>
RqMalware == <<"code", "script_eval_atob", "none">>
RqLateScheme == <<"url", "late_scheme", "none">>
RqLogin == <<"url", "login", "please_verify">>

\* The requests and batch bodies of the concurrent specification.
Requests == {RqThreat, RqCode, RqAction, RqFile}

Batches == {<<RqFile, RqThreat>>}

\* The requests and batch bodies of the one-worker specification.
SeqRequests ==
    {RqThreat, RqCollide, RqCode, RqAction, RqFile, RqPanic, RqClamped,
     RqLegitimate, RqSafeCode, RqMalware}

SeqBatches == {<<>>, <<RqThreat, RqCollide>>, <<RqAction, RqPanic>>}

\* The batch bodies of the classifier specification: every url request and
\* every request without context alone, and some longer ones.
ClassifierRequests ==
    {id \in AllRequests : id[1] = "url" \/ id[3] = "none"}

ClassifierBatches ==
    {<<id>> : id \in ClassifierRequests}
        \cup SeqBatches
        \cup {<<RqCode, RqAction, RqFile, RqCode>>,
              <<RqClamped, RqLegitimate, RqSafeCode, RqMalware>>,
              <<RqLateScheme, RqLogin>>}

(***************************************************************************)
(* Cache key.                                                              *)
(***************************************************************************)
\* format!("{}:{}:{}", threat_type, content, context.unwrap_or(""))
cache_key(r) ==
    r.threat_type \o <<":">> \o r.content \o <<":">>
        \o (IF r.context = NoContext THEN <<>> ELSE r.context)

\* SHA-256 in hex, taken to be collision-free: the digest of a text is
\* named by one fixed request among those that format to that text, so
\* two texts have the same digest exactly when they are the same text.
hash_string(input) ==
    <<"sha256", CHOOSE id \in AllRequests : cache_key(Body(id)) = input>>

\* hash_key of every request, computed once (@@ makes the table explicit).
HashKeyTable == [id \in AllRequests |-> hash_string(cache_key(Body(id)))] @@ <<>>

HashKey(id) == HashKeyTable[id]

(***************************************************************************)
(* lru::LruCache: entries ordered from most to least recently used.        *)
(***************************************************************************)
NewLruCache(cap) == [cap |-> cap, entries |-> <<>>]

LruKeys(c) == {c.entries[i].key : i \in 1..Len(c.entries)}

LruIndex(c, k) == CHOOSE i \in 1..Len(c.entries) : c.entries[i].key = k

\* LruCache::peek: the value, without touching the order.
LruPeek(c, k) == c.entries[LruIndex(c, k)].value

RemoveAt(s, i) == SubSeq(s, 1, i - 1) \o SubSeq(s, i + 1, Len(s))

\* Variant of LruPut that never drops an entry.
LruPutNoEvict(c, k, v) ==
    LET e == [key |-> k, value |-> v]
    IN  IF k \in LruKeys(c)
        THEN [c EXCEPT !.entries = <<e>> \o RemoveAt(@, LruIndex(c, k))]
        ELSE [c EXCEPT !.entries = <<e>> \o @]

\* LruCache::put: an existing key gets the new value and moves to the
\* front; a new key goes to the front after the last entry is dropped
\* when the cache is at capacity.
LruPut(c, k, v) ==
    LET e == [key |-> k, value |-> v]
    IN  IF k \in LruKeys(c)
        THEN [c EXCEPT !.entries = <<e>> \o RemoveAt(@, LruIndex(c, k))]
        ELSE IF Len(c.entries) = c.cap
        THEN [c EXCEPT !.entries = <<e>> \o SubSeq(@, 1, Len(@) - 1)]
        ELSE [c EXCEPT !.entries = <<e>> \o @]

(***************************************************************************)
(* The match on threat_type for every request and clock reading, computed  *)
(* once.                                                                   *)
(***************************************************************************)
DetectTable ==
    [x \in AllRequests \X (Elapsed) |-> Detect(Body(x[1]), x[2])] @@ <<>>

(***************************************************************************)
(* State.                                                                  *)
(***************************************************************************)
\* Worker threads serving requests concurrently (main.rs:381).
Workers == {"w1", "w2"}
NoWorker == "nobody"
NoRequest == <<>>
NoResult == [none |-> TRUE]

VARIABLES
    cache,        \* AppState.cache: the LruCache
    stats,        \* AppState.stats: DetectionStats
    cacheLock,    \* holder of the cache Mutex, or NoWorker
    statsLock,    \* holder of the stats Mutex, or NoWorker
    pc,           \* where each worker's handler stands
    req,          \* the request body of each worker's running call
    result,       \* detect_threat's local `result`
    returned,     \* the latest response sent: worker, handler, request, body
    recorded,     \* history: every latency pushed, in order
    accessOrder,  \* history: cached keys, most recently accessed first
    overlap,      \* history: calls have overlapped since the system was last idle
    alone,        \* history: the latest call to return ran alone, none started since
    follows       \* history: the call running alone repeats the request of the
                  \* detect_threat call that ran alone just before it

vars == <<cache, stats, cacheLock, statsLock, pc, req, result, returned,
          recorded, accessOrder, overlap, alone, follows>>

history == <<recorded, accessOrder, overlap, alone, follows>>

\* AppState as main() builds it.
Init ==
    /\ cache = NewLruCache(Capacity)
    /\ stats = [total_detections |-> 0, threats_detected |-> 0,
                cache_hits |-> 0, latencies |-> <<>>]
    /\ cacheLock = NoWorker
    /\ statsLock = NoWorker
    /\ pc = [p \in Workers |-> "idle"]
    /\ req = [p \in Workers |-> NoRequest]
    /\ result = [p \in Workers |-> NoResult]
    /\ returned = [worker |-> NoWorker, op |-> "none",
                   req |-> NoRequest, body |-> NoResult]
    /\ recorded = <<>>
    /\ accessOrder = <<>>
    /\ overlap = FALSE
    /\ alone = FALSE
    /\ follows = FALSE

(***************************************************************************)
(* History bookkeeping (no effect on the program's state).                 *)
(***************************************************************************)
OthersIdle(p) == \A q \in Workers \ {p} : pc[q] = "idle"

\* A call by p with request body r starts.  When every other worker is
\* idle it runs alone so far, and it follows the call that ran alone and
\* returned just before it; otherwise calls overlap from now on.
CallStarts(p, r) ==
    /\ overlap' = ~OthersIdle(p)
    /\ follows' = /\ OthersIdle(p)
                  /\ alone
                  /\ returned.op = "detect"
                  /\ returned.req = r
    /\ alone' = FALSE

\* A call by p returns.
CallEnds(p) ==
    /\ alone' = ~overlap
    /\ UNCHANGED <<overlap, follows>>

\* The response sent by handler op of worker p.
Response(p, op, body) ==
    [worker |-> p, op |-> op, req |-> req[p], body |-> body]

MoveToFront(order, k) ==
    <<k>> \o SelectSeq(order, LAMBDA x : x # k)

\* The key k is accessed and the cache becomes c.
Accessed(order, k, c) ==
    SelectSeq(MoveToFront(order, k), LAMBDA x : x \in LruKeys(c))

(***************************************************************************)
(* detect_threat.                                                          *)
(***************************************************************************)
\* Single-item calls made so far, the ones in flight included.
InFlight == Cardinality({p \in Workers :
                           pc[p] \in {"hit_lock_stats", "detect", "lock_stats"}})

CallsMade == stats.total_detections + stats.cache_hits + InFlight

\* Variant of ProbeCache that keeps the cache lock when the probe misses.
ProbeCacheHolding(p, r) ==
    /\ pc[p] = "idle"
    /\ CallsMade < MaxCalls
    /\ cacheLock = NoWorker
    /\ req' = [req EXCEPT ![p] = r]
    /\ cacheLock' = p
    /\ IF HashKey(r) \in LruKeys(cache)
       THEN /\ pc' = [pc EXCEPT ![p] = "hit_lock_stats"]
            /\ accessOrder' = Accessed(accessOrder, HashKey(r), cache)
       ELSE /\ pc' = [pc EXCEPT ![p] = "detect"]
            /\ UNCHANGED accessOrder
    /\ CallStarts(p, r)
    /\ UNCHANGED <<cache, stats, statsLock, result, returned, recorded>>

\* Lines 105-129 up to the cache probe: take the cache lock and peek.  On a
\* hit the handler goes on to the stats lock with the cache lock held; on a
\* miss the block ends and the lock is dropped.
ProbeCache(p, r) ==
    /\ pc[p] = "idle"
    /\ CallsMade < MaxCalls
    /\ cacheLock = NoWorker
    /\ req' = [req EXCEPT ![p] = r]
    /\ IF HashKey(r) \in LruKeys(cache)
       THEN /\ cacheLock' = p
            /\ pc' = [pc EXCEPT ![p] = "hit_lock_stats"]
            /\ accessOrder' = Accessed(accessOrder, HashKey(r), cache)
       ELSE /\ pc' = [pc EXCEPT ![p] = "detect"]
            /\ UNCHANGED <<cacheLock, accessOrder>>
    /\ CallStarts(p, r)
    /\ UNCHANGED <<cache, stats, statsLock, result, returned, recorded>>

\* Variant of CacheHit that answers with the stored response as it is,
\* without marking it cached.
CacheHitUnmarked(p, elapsed) ==
    /\ pc[p] = "hit_lock_stats"
    /\ statsLock = NoWorker
    /\ pc' = [pc EXCEPT ![p] = "idle"]
    /\ stats' = [stats EXCEPT !.cache_hits = @ + 1]
    /\ returned' = Response(p, "detect",
          [LruPeek(cache, HashKey(req[p])) EXCEPT !.latency_ms = elapsed])
    /\ cacheLock' = NoWorker
    /\ req' = [req EXCEPT ![p] = NoRequest]
    /\ CallEnds(p)
    /\ UNCHANGED <<cache, statsLock, result, recorded, accessOrder>>

\* Lines 120-127: take the stats lock, count the hit, answer with the
\* cached response marked cached and stamped with the elapsed time; both
\* guards drop at the return.
CacheHit(p, elapsed) ==
    /\ pc[p] = "hit_lock_stats"
    /\ statsLock = NoWorker
    /\ pc' = [pc EXCEPT ![p] = "idle"]
    /\ stats' = [stats EXCEPT !.cache_hits = @ + 1]
    /\ returned' = Response(p, "detect",
          [LruPeek(cache, HashKey(req[p])) EXCEPT
              !.cached = TRUE, !.latency_ms = elapsed])
    /\ cacheLock' = NoWorker
    /\ req' = [req EXCEPT ![p] = NoRequest]
    /\ CallEnds(p)
    /\ UNCHANGED <<cache, statsLock, result, recorded, accessOrder>>

\* Lines 131-148: the classification, with no lock held.  A panic unwinds
\* the handler: the call yields no response.
Classify(p, elapsed) ==
    /\ pc[p] = "detect"
    /\ LET res == DetectTable[<<req[p], elapsed>>]
       IN  IF res = Panicked
           THEN /\ pc' = [pc EXCEPT ![p] = "idle"]
                /\ returned' = Response(p, "detect", Panicked)
                /\ req' = [req EXCEPT ![p] = NoRequest]
                /\ CallEnds(p)
                /\ UNCHANGED result
           ELSE /\ result' = [result EXCEPT ![p] = res]
                /\ pc' = [pc EXCEPT ![p] = "lock_stats"]
                /\ UNCHANGED <<req, returned, overlap, alone, follows>>
    /\ UNCHANGED <<cache, stats, cacheLock, statsLock, recorded, accessOrder>>

\* Lines 152-157: take the stats lock, count the detection, push the latency.
UpdateStats(p) ==
    /\ pc[p] = "lock_stats"
    /\ statsLock = NoWorker
    /\ statsLock' = p
    /\ stats' = [stats EXCEPT
          !.total_detections = @ + 1,
          !.threats_detected = IF result[p].is_threat THEN @ + 1 ELSE @,
          !.latencies = Append(@, result[p].latency_ms)]
    /\ recorded' = Append(recorded, result[p].latency_ms)
    /\ pc' = [pc EXCEPT ![p] = "trim"]
    /\ UNCHANGED <<cache, cacheLock, req, result, returned,
                   accessOrder, overlap, alone, follows>>

\* Variant of TrimLatencies that drops the newest latency instead.
TrimLatenciesNewest(p) ==
    /\ pc[p] = "trim"
    /\ stats' = [stats EXCEPT !.latencies =
                   IF Len(@) > LatencyWindow THEN SubSeq(@, 1, Len(@) - 1) ELSE @]
    /\ statsLock' = NoWorker
    /\ pc' = [pc EXCEPT ![p] = "lock_cache"]
    /\ UNCHANGED <<cache, cacheLock, req, result, returned, history>>

\* Variant of TrimLatencies in which the stats guard outlives its block.
TrimLatenciesHolding(p) ==
    /\ pc[p] = "trim"
    /\ stats' = [stats EXCEPT !.latencies =
                   IF Len(@) > LatencyWindow THEN Tail(@) ELSE @]
    /\ pc' = [pc EXCEPT ![p] = "lock_cache"]
    /\ UNCHANGED <<cache, cacheLock, statsLock, req, result, returned, history>>

\* Lines 159-163: drop the oldest latency beyond the window; the block ends.
TrimLatencies(p) ==
    /\ pc[p] = "trim"
    /\ stats' = [stats EXCEPT !.latencies =
                   IF Len(@) > LatencyWindow THEN Tail(@) ELSE @]
    /\ statsLock' = NoWorker
    /\ pc' = [pc EXCEPT ![p] = "lock_cache"]
    /\ UNCHANGED <<cache, cacheLock, req, result, returned, history>>

\* Variant of CachePut that adds the entry without looking for the key.
CachePutAppend(p) ==
    /\ pc[p] = "lock_cache"
    /\ cacheLock = NoWorker
    /\ pc' = [pc EXCEPT ![p] = "idle"]
    /\ cache' = [cache EXCEPT !.entries =
                   <<[key |-> HashKey(req[p]), value |-> result[p]]>>
                       \o SubSeq(@, 1, IF Len(@) = cache.cap THEN Len(@) - 1 ELSE Len(@))]
    /\ accessOrder' = Accessed(accessOrder, HashKey(req[p]), cache')
    /\ returned' = Response(p, "detect", result[p])
    /\ result' = [result EXCEPT ![p] = NoResult]
    /\ req' = [req EXCEPT ![p] = NoRequest]
    /\ CallEnds(p)
    /\ UNCHANGED <<stats, cacheLock, statsLock, recorded>>

\* Lines 165-171: take the cache lock, put the result, answer with it.
CachePut(p) ==
    /\ pc[p] = "lock_cache"
    /\ cacheLock = NoWorker
    /\ pc' = [pc EXCEPT ![p] = "idle"]
    /\ cache' = LruPut(cache, HashKey(req[p]), result[p])
    /\ accessOrder' = Accessed(accessOrder, HashKey(req[p]), cache')
    /\ returned' = Response(p, "detect", result[p])
    /\ result' = [result EXCEPT ![p] = NoResult]
    /\ req' = [req EXCEPT ![p] = NoRequest]
    /\ CallEnds(p)
    /\ UNCHANGED <<stats, cacheLock, statsLock, recorded>>

(***************************************************************************)
(* detect_batch.                                                           *)
(***************************************************************************)
RECURSIVE MapDetectReversed(_)
\* Variant of MapDetect that collects the results last item first.
MapDetectReversed(threats) ==
    IF threats = <<>> THEN [panic |-> FALSE, results |-> <<>>]
    ELSE LET first == DetectTable[<<Head(threats), 0>>]
             rest == MapDetectReversed(Tail(threats))
         IN  IF first = Panicked \/ rest.panic
             THEN [panic |-> TRUE, results |-> <<>>]
             ELSE [panic |-> FALSE, results |-> rest.results \o <<first>>]

RECURSIVE MapDetect(_)
\* req.threats.iter().map(...).collect(); a panicking item unwinds the
\* whole call.
MapDetect(threats) ==
    IF threats = <<>> THEN [panic |-> FALSE, results |-> <<>>]
    ELSE LET first == DetectTable[<<Head(threats), 0>>]
             rest == MapDetect(Tail(threats))
         IN  IF first = Panicked \/ rest.panic
             THEN [panic |-> TRUE, results |-> <<>>]
             ELSE [panic |-> FALSE, results |-> <<first>> \o rest.results]

\* Variant of DetectBatch that counts the batch's items as detections.
DetectBatchCounted(p, threats, elapsed) ==
    /\ pc[p] = "idle"
    /\ statsLock = NoWorker
    /\ returned' =
          [worker |-> p, op |-> "batch", req |-> [threats |-> threats],
           body |-> IF MapDetect(threats).panic THEN Panicked
                    ELSE [results |-> MapDetect(threats).results,
                          total_latency_ms |-> elapsed]]
    /\ stats' = [stats EXCEPT !.total_detections = @ + Len(threats)]
    /\ overlap' = ~OthersIdle(p)
    /\ follows' = FALSE
    /\ alone' = OthersIdle(p)
    /\ UNCHANGED <<cache, cacheLock, statsLock, pc, req, result,
                   recorded, accessOrder>>

\* Lines 175-208: the whole handler; it touches neither lock.
DetectBatch(p, threats, elapsed) ==
    /\ pc[p] = "idle"
    /\ returned' =
          [worker |-> p, op |-> "batch", req |-> [threats |-> threats],
           body |-> IF MapDetect(threats).panic THEN Panicked
                    ELSE [results |-> MapDetect(threats).results,
                          total_latency_ms |-> elapsed]]
    /\ overlap' = ~OthersIdle(p)
    /\ follows' = FALSE
    /\ alone' = OthersIdle(p)
    /\ UNCHANGED <<cache, stats, cacheLock, statsLock, pc, req, result,
                   recorded, accessOrder>>

(***************************************************************************)
(* health and get_statistics.                                              *)
(***************************************************************************)
\* Line 212 / 224: take the cache lock.
SnapshotLockCache(p, op) ==
    /\ pc[p] = "idle"
    /\ cacheLock = NoWorker
    /\ cacheLock' = p
    /\ pc' = [pc EXCEPT ![p] = op]
    /\ CallStarts(p, NoRequest)
    /\ UNCHANGED <<cache, stats, statsLock, req, result, returned,
                   recorded, accessOrder>>

\* Lines 213-220: take the stats lock and answer; the timestamp is the
\* clock's and is left out of the response.
Health(p) ==
    /\ pc[p] = "health"
    /\ statsLock = NoWorker
    /\ pc' = [pc EXCEPT ![p] = "idle"]
    /\ returned' = Response(p, "health",
                            [status |-> "healthy", version |-> "1.0.0"])
    /\ cacheLock' = NoWorker
    /\ CallEnds(p)
    /\ UNCHANGED <<cache, stats, statsLock, req, result, recorded, accessOrder>>

RECURSIVE SumSeq(_)
SumSeq(s) == IF s = <<>> THEN 0 ELSE Head(s) + SumSeq(Tail(s))

\* DetectionStats::avg_latency: 0.0 for an empty window, else the f32
\* quotient of the sum by the count, kept as numerator and denominator.
avg_latency(st) ==
    IF st.latencies = <<>> THEN [num |-> 0, den |-> 1]
    ELSE [num |-> SumSeq(st.latencies), den |-> Len(st.latencies)]

\* Variant of GetStatistics that starts the counters afresh once reported.
GetStatisticsReset(p) ==
    /\ pc[p] = "stats"
    /\ statsLock = NoWorker
    /\ pc' = [pc EXCEPT ![p] = "idle"]
    /\ returned' = Response(p, "stats",
          [total_detections |-> stats.total_detections,
           threats_detected |-> stats.threats_detected,
           cache_hits |-> stats.cache_hits,
           cache_size |-> Len(cache.entries),
           avg_latency_ms |-> avg_latency(stats)])
    /\ stats' = [stats EXCEPT !.total_detections = 0,
                              !.threats_detected = 0, !.cache_hits = 0]
    /\ cacheLock' = NoWorker
    /\ CallEnds(p)
    /\ UNCHANGED <<cache, statsLock, req, result, recorded, accessOrder>>

\* Lines 225-233: take the stats lock and answer with the snapshot.
GetStatistics(p) ==
    /\ pc[p] = "stats"
    /\ statsLock = NoWorker
    /\ pc' = [pc EXCEPT ![p] = "idle"]
    /\ returned' = Response(p, "stats",
          [total_detections |-> stats.total_detections,
           threats_detected |-> stats.threats_detected,
           cache_hits |-> stats.cache_hits,
           cache_size |-> Len(cache.entries),
           avg_latency_ms |-> avg_latency(stats)])
    /\ cacheLock' = NoWorker
    /\ CallEnds(p)
    /\ UNCHANGED <<cache, stats, statsLock, req, result, recorded, accessOrder>>

(***************************************************************************)
(* Specifications.                                                         *)
(***************************************************************************)
\* The steps of the workers W serving single-item requests R and batches B.
NextOver(W, R, B) ==
    \E p \in W :
        \/ \E r \in R : ProbeCache(p, r)
        \/ \E e \in Elapsed : CacheHit(p, e)
        \/ \E e \in Elapsed : Classify(p, e)
        \/ UpdateStats(p)
        \/ TrimLatencies(p)
        \/ CachePut(p)
        \/ \E b \in B : \E e \in Elapsed : DetectBatch(p, b, e)
        \/ SnapshotLockCache(p, "health")
        \/ SnapshotLockCache(p, "stats")
        \/ Health(p)
        \/ GetStatistics(p)

\* Concurrent workers.
Next == NextOver(Workers, Requests, Batches)

Spec == Init /\ [][Next]_vars

\* One worker: calls run one after the other.
NextSeq == NextOver({"w1"}, SeqRequests, SeqBatches)

SpecSeq == Init /\ [][NextSeq]_vars

\* The classifiers applied to every request of the tables, through
\* detect_batch.
NextClassifier ==
    \E b \in ClassifierBatches : \E e \in Elapsed : DetectBatch("w1", b, e)

SpecClassifier == Init /\ [][NextClassifier]_vars

\* The steps by which worker p's running handler goes on.
Continue(p) ==
    \/ \E e \in Elapsed : CacheHit(p, e)
    \/ \E e \in Elapsed : Classify(p, e)
    \/ UpdateStats(p)
    \/ TrimLatencies(p)
    \/ CachePut(p)
    \/ Health(p)
    \/ GetStatistics(p)

\* Concurrent workers under fair scheduling: a handler that can go on
\* again and again (the lock it waits for is free again and again) does.
NextFair == NextOver(Workers, {RqThreat, RqPanic}, Batches)

SpecFair ==
    Init /\ [][NextFair]_vars /\ \A p \in Workers : SF_vars(Continue(p))

(***************************************************************************)
(* Properties.                                                             *)
(***************************************************************************)
AllIdle == \A p \in Workers : pc[p] = "idle"

\* Some worker's handler returns in this step.
Returns(p) == pc[p] # "idle" /\ pc'[p] = "idle"

\* The step is a detect_batch call (the only handler that is one step).
BatchStep == returned'.op = "batch" /\ pc' = pc

\* C1: the cache never holds more entries than the capacity it was built
\* with, and that capacity never changes.
C1_CacheWithinCapacity ==
    /\ cache.cap = Capacity
    /\ Len(cache.entries) <= cache.cap
    /\ Cardinality(LruKeys(cache)) = Len(cache.entries)

\* A full cache from which the entry of RqThreat, inserted earlier, is gone.
C1_Witness ==
    /\ AllIdle
    /\ stats.threats_detected >= 1
    /\ Len(cache.entries) = cache.cap
    /\ HashKey(RqThreat) \notin LruKeys(cache)

\* C2: the entry an insertion drops is the least recently accessed one,
\* an insertion and a hit both counting as an access.
C2_EvictsLeastRecentlyAccessed ==
    [][\A k \in LruKeys(cache) :
          k \notin LruKeys(cache') => k = accessOrder[Len(accessOrder)]]_vars

C4_CountersNeverDecrease ==
    [][/\ stats'.total_detections >= stats.total_detections
       /\ stats'.threats_detected >= stats.threats_detected
       /\ stats'.cache_hits >= stats.cache_hits]_vars

\* All three counters have grown and a statistics call has returned.
C4_Witness ==
    /\ stats.total_detections > 1
    /\ stats.threats_detected > 0
    /\ stats.cache_hits > 0
    /\ returned.op = "stats"

\* C5: a detect_batch call leaves the cache, the statistics and both locks
\* as they were, and the same batch gives the same results whatever
\* happened to the shared state since it was last answered.
C5_BatchTouchesNothingShared ==
    [][BatchStep =>
          /\ UNCHANGED <<cache, stats, cacheLock, statsLock, recorded, accessOrder>>
          /\ (returned.op = "batch" /\ returned.req = returned'.req
                /\ returned.body # Panicked)
             => returned'.body.results = returned.body.results]_vars

\* A batch answered while the cache holds an entry for one of its items and
\* the statistics are not at zero.
C5_Witness ==
    /\ returned.op = "batch"
    /\ returned.body # Panicked
    /\ \E i \in 1..Len(returned.req.threats) :
          HashKey(returned.req.threats[i]) \in LruKeys(cache)
    /\ stats.total_detections > 0
    /\ stats.cache_hits > 0

\* The classification results in the latest response, each with the
\* request it answers.
ReturnedResults ==
    IF returned.body = Panicked THEN {}
    ELSE IF returned.op = "detect" THEN {<<returned.req, returned.body>>}
    ELSE IF returned.op = "batch"
    THEN {<<returned.req.threats[i], returned.body.results[i]>> :
            i \in 1..Len(returned.req.threats)}
    ELSE {}

LastN(s, n) == IF Len(s) <= n THEN s ELSE SubSeq(s, Len(s) - n + 1, Len(s))

\* C7: whenever the stats lock is free the window is the last LatencyWindow
\* latencies recorded, in the order recorded, and the average a statistics
\* call reports is the mean of exactly those.
C7_WindowIsMostRecent ==
    /\ [](statsLock = NoWorker
            => /\ Len(stats.latencies) <= LatencyWindow
               /\ stats.latencies = LastN(recorded, LatencyWindow))
    /\ [][\A p \in Workers :
            (pc[p] = "stats" /\ pc'[p] = "idle")
            => LET last == LastN(recorded, LatencyWindow)
               IN  returned'.body.avg_latency_ms =
                      IF last = <<>> THEN [num |-> 0, den |-> 1]
                      ELSE [num |-> SumSeq(last), den |-> Len(last)]]_vars

\* More latencies were recorded than the window keeps, the one dropped
\* differs from the ones kept, and a statistics call has reported since.
C7_Witness ==
    /\ statsLock = NoWorker
    /\ Len(recorded) > LatencyWindow
    /\ recorded[1] = 1
    /\ SumSeq(stats.latencies) = 0
    /\ returned.op = "stats"
    /\ returned.body.total_detections = Len(recorded)

\* C8: a result's is_threat holds exactly when its confidence reaches the
\* threshold of its request's kind (0.70 for url, 0.75 for code), and
\* never for kind action or an unrecognized kind.
C8_ThreatIffThreshold ==
    \A x \in ReturnedResults :
        LET kind == Body(x[1]).threat_type
            res == x[2]
        IN  /\ kind = S_url
               => (res.is_threat <=> 10 * res.confidence >= 7 * F32_1_0)
            /\ kind = S_code
               => (res.is_threat <=> 4 * res.confidence >= 3 * F32_1_0)
            /\ kind \notin {S_url, S_code} => ~res.is_threat

\* C9: every result returned or cached has a confidence in [0, 1] and at
\* least one reason, the classifier's sentinel alone when nothing fired.
WellFormedResult(res) ==
    /\ res.confidence >= 0
    /\ res.confidence <= F32_1_0
    /\ res.reasons # <<>>
    /\ (res.threat_type = "phishing" /\ res.confidence = 0)
       => res.reasons = <<"URL appears legitimate">>
    /\ (res.threat_type = "malware" /\ res.confidence = 0)
       => res.reasons = <<"Code appears safe">>

C9_ConfidenceAndReasons ==
    /\ \A x \in ReturnedResults : WellFormedResult(x[2])
    /\ \A i \in 1..Len(cache.entries) : WellFormedResult(cache.entries[i].value)

\* A cache hit answered with the result of a request on which all four
\* phishing signals fire (their sum is over 1).
C9_Witness ==
    /\ returned.op = "detect"
    /\ returned.req = RqClamped
    /\ returned.body.cached
    /\ returned.body.confidence = F32_1_0
    /\ Len(returned.body.reasons) = 4

(***************************************************************************)
(* The rule table of the phishing classifier as documented, in hundredths. *)
(***************************************************************************)
\* The content begins with "http://" and a digit follows the scheme
\* (any numeric character counts as a digit here, as in the code).
RefIpSignal(url) ==
    /\ Len(url) > Len(S_http)
    /\ SubSeq(url, 1, Len(S_http)) = S_http
    /\ IsNumeric(url[Len(S_http) + 1])

RefPhishing(url, context) ==
    LET long == ByteLen(url) > LongUrlLimit
        brand == BrandSignal(url)
        ip == RefIpSignal(url)
        ctx == ContextSignal(context)
        sum == (IF long THEN 30 ELSE 0) + (IF brand THEN 40 ELSE 0)
                 + (IF ip THEN 30 ELSE 0) + (IF ctx THEN 20 ELSE 0)
        reasons == (IF long THEN <<"Unusually long URL">> ELSE <<>>)
                     \o (IF brand THEN <<"Suspicious domain pattern">> ELSE <<>>)
                     \o (IF ip THEN <<"Using IP address instead of domain">> ELSE <<>>)
                     \o (IF ctx THEN <<"Context contains phishing keywords">> ELSE <<>>)
    IN  [confidence |-> IF sum > 100 THEN 100 ELSE sum,
         reasons |-> IF reasons = <<>> THEN <<"URL appears legitimate">> ELSE reasons,
         severity |-> IF sum >= 85 THEN "critical"
                      ELSE IF sum >= 65 THEN "high"
                      ELSE IF sum >= 45 THEN "medium"
                      ELSE "low"]

\* An f32 confidence to the nearest hundredth.
Hundredths(c) == ((c \div 64) * 100 + 524288) \div 1048576

\* C10: for kind url the result is the rule table's: confidence, reasons in
\* signal order and severity; the login URL with context "please verify"
\* gives 0.50, medium, no threat.
C10_PhishingMatchesRuleTable ==
    \A x \in ReturnedResults :
        LET r == Body(x[1])
            res == x[2]
            ref == RefPhishing(r.content, r.context)
        IN  r.threat_type = S_url
            => /\ Hundredths(res.confidence) = ref.confidence
               /\ res.reasons = ref.reasons
               /\ res.severity = ref.severity
               /\ x[1] = RqLogin
                  => /\ Hundredths(res.confidence) = 50
                     /\ res.severity = "medium"
                     /\ ~res.is_threat

(***************************************************************************)
(* The rule table of the malware classifier as documented, in hundredths.  *)
(***************************************************************************)
\* How many of the three signal groups fire on the code.
FiredGroups(code) ==
    (IF EvalSignal(code) THEN 1 ELSE 0)
        + (IF ObfuscationSignal(code) THEN 1 ELSE 0)
        + (IF InjectionSignal(code) THEN 1 ELSE 0)

RefMalware(code) ==
    LET sum == 30 * FiredGroups(code)
    IN  [confidence |-> IF sum > 100 THEN 100 ELSE sum,
         severity |-> IF sum >= 85 THEN "critical"
                      ELSE IF sum >= 65 THEN "high"
                      ELSE "medium"]

\* C11: for kind code the confidence is 0.30 for each signal group that
\* fires, clamped to [0, 1]; the severity is critical from 0.85, high from
\* 0.65 and medium below, never low; no group gives 0.0 with the reason
\* "Code appears safe"; two groups give 0.60, medium, no threat.
C11_MalwareMatchesRuleTable ==
    \A x \in ReturnedResults :
        LET r == Body(x[1])
            res == x[2]
            ref == RefMalware(r.content)
        IN  r.threat_type = S_code
            => /\ Hundredths(res.confidence) = ref.confidence
               /\ res.confidence <= F32_1_0
               /\ res.severity = ref.severity
               /\ res.severity # "low"
               /\ FiredGroups(r.content) = 0
                  => /\ res.confidence = 0
                     /\ res.reasons = <<"Code appears safe">>
               /\ FiredGroups(r.content) = 2
                  => /\ Hundredths(res.confidence) = 60
                     /\ res.severity = "medium"
                     /\ ~res.is_threat

\* A batch answered with the results for code on which no group, and code
\* on which all three groups fire.
C11_Witness ==
    /\ returned.op = "batch"
    /\ returned.req.threats = <<RqClamped, RqLegitimate, RqSafeCode, RqMalware>>
    /\ returned.body # Panicked
    /\ returned.body.results[3].severity = "medium"
    /\ returned.body.results[3].confidence = 0
    /\ returned.body.results[4].severity = "critical"
    /\ returned.body.results[4].is_threat

\* The request's kind is none of the three the match knows.
UnknownKind(id) == Body(id).threat_type \notin {S_url, S_code, S_action}

\* The fields of the fallback arm's result.
UnknownFields(res) ==
    /\ res.threat_type = "unknown"
    /\ ~res.is_threat
    /\ res.confidence = 0
    /\ res.severity = "unknown"
    /\ res.reasons = <<"Unknown threat type">>

\* C12: a detect_threat call with an unrecognized kind is answered with the
\* "unknown" result (not a threat, confidence 0, severity "unknown", reason
\* "Unknown threat type"); on a miss it counts as a detection and not as a
\* threat, its result is put in the cache, and the same request repeated
\* right after is answered from the cache.
C12_UnknownKindHandled ==
    [][\A p \in Workers :
          (req[p] # NoRequest /\ UnknownKind(req[p]))
          => /\ Returns(p)
                => /\ returned'.body # Panicked
                   /\ UnknownFields(returned'.body)
             /\ (pc[p] = "detect" /\ pc'[p] # "detect")
                => pc'[p] = "lock_stats"
             /\ (pc[p] = "lock_stats" /\ pc'[p] # "lock_stats")
                => /\ stats'.total_detections = stats.total_detections + 1
                   /\ stats'.threats_detected = stats.threats_detected
             /\ (pc[p] = "lock_cache" /\ pc'[p] = "idle")
                => /\ HashKey(req[p]) \in LruKeys(cache')
                   /\ LruPeek(cache', HashKey(req[p])) = returned'.body
                   /\ ~returned'.body.cached
             /\ (Returns(p) /\ follows) => returned'.body.cached]_vars

\* The request of kind "file" was answered on a miss and then, repeated,
\* from the cache.
C12_Witness ==
    /\ follows
    /\ alone
    /\ returned.op = "detect"
    /\ returned.req = RqFile
    /\ returned.body.cached
    /\ UnknownFields(returned.body)
    /\ stats.total_detections = 1
    /\ stats.threats_detected = 0

\* C13: the severity of every result returned by detect_threat or
\* detect_batch, whatever the request's kind, is one of low, medium, high
\* and critical.
C13_SeverityIsEnumerated ==
    \A x \in ReturnedResults :
        x[2].severity \in {"low", "medium", "high", "critical"}

\* C14: every detect_threat and detect_batch call yields its classification
\* results, whatever the kind, content and context of the request: no
\* classifier call aborts.
C14_ClassificationIsTotal ==
    returned.op \in {"detect", "batch"} => returned.body # Panicked

\* C15: a worker holds neither lock while it classifies: none from the end
\* of the cache probe until the statistics update begins, none while it
\* serves a batch, and classifying changes no lock.
C15_NoLockAcrossClassifier ==
    /\ [](\A p \in Workers :
            pc[p] \in {"idle", "detect", "lock_stats"}
            => cacheLock # p /\ statsLock # p)
    /\ [][(BatchStep \/ \E p \in Workers : pc[p] = "detect" /\ pc'[p] # "detect")
          => UNCHANGED <<cacheLock, statsLock>>]_vars

\* A worker has classified its request and holds no lock while the other
\* worker holds the cache lock.
C15_Witness ==
    \E p \in Workers :
        /\ pc[p] = "lock_stats"
        /\ result[p] # NoResult
        /\ cacheLock \in Workers \ {p}
        /\ statsLock = NoWorker

\* The two results agree on is_threat, confidence, severity and reasons.
SameVerdict(a, b) ==
    /\ a.is_threat = b.is_threat
    /\ a.confidence = b.confidence
    /\ a.severity = b.severity
    /\ a.reasons = b.reasons

\* The workers p and q are both past a miss on the same request and have
\* both counted it.
BothMissed(p, q) ==
    /\ p # q
    /\ req[p] # NoRequest
    /\ req[p] = req[q]
    /\ pc[p] \in {"trim", "lock_cache"}
    /\ pc[q] \in {"trim", "lock_cache"}

\* C16: two concurrent detect_threat calls with the same request may both
\* miss; then both have counted a detection, their results agree with each
\* other and with the response of whichever returned first, and each write
\* leaves the cache with one entry for the key, holding the writer's result.
C16_ConcurrentMissesAgree ==
    /\ [](\A p, q \in Workers :
            BothMissed(p, q)
            => /\ stats.total_detections >= 2
               /\ SameVerdict(result[p], result[q]))
    /\ [][\A p \in Workers :
            (pc[p] = "lock_cache" /\ pc'[p] = "idle")
            => /\ Cardinality({i \in 1..Len(cache'.entries) :
                                 cache'.entries[i].key = HashKey(req[p])}) = 1
               /\ LruPeek(cache', HashKey(req[p])) = result[p]
               /\ (returned.op = "detect" /\ returned.req = req[p]
                     /\ returned.body # Panicked)
                  => SameVerdict(returned'.body, returned.body)]_vars

\* Two overlapping calls with the same request have both missed, both
\* counted and both written: two detections, no hit, one entry.
C16_Witness ==
    /\ AllIdle
    /\ overlap
    /\ stats.total_detections = 2
    /\ stats.cache_hits = 0
    /\ Len(cache.entries) = 1
    /\ returned.op = "detect"
    /\ ~returned.body.cached

C18_CachedMatchesOwnClassifier ==
    \A x \in ReturnedResults :
        x[2].cached
        => LET own == Detect(Body(x[1]), 0)
           IN  /\ own # Panicked
               /\ SameVerdict(x[2], own)
               /\ x[2].threat_type = own.threat_type

\* C19: a detect_threat call that hits adds one to cache_hits and changes
\* nothing else of the statistics, the latency window or the cache; one
\* that misses goes on to add one to total_detections, one to
\* threats_detected exactly when its result is a threat, and one latency
\* sample, leaving cache_hits as it was; the probe and the classification
\* change neither statistics nor cache.
C19_HitAndMissEffects ==
    [][\A p \in Workers :
          /\ (pc[p] = "idle" /\ pc'[p] \in {"hit_lock_stats", "detect"})
             => UNCHANGED <<cache, stats, recorded>>
          /\ (pc[p] = "hit_lock_stats" /\ pc'[p] = "idle")
             => /\ stats' = [stats EXCEPT !.cache_hits = @ + 1]
                /\ UNCHANGED <<cache, recorded>>
                /\ returned'.body.cached
          /\ (pc[p] = "detect" /\ pc'[p] # "detect")
             => /\ pc'[p] = "lock_stats"
                /\ UNCHANGED <<cache, stats, recorded>>
          /\ (pc[p] = "lock_stats" /\ pc'[p] = "trim")
             => /\ stats'.total_detections = stats.total_detections + 1
                /\ stats'.threats_detected =
                      stats.threats_detected + (IF result[p].is_threat THEN 1 ELSE 0)
                /\ stats'.cache_hits = stats.cache_hits
                /\ stats'.latencies = Append(stats.latencies, result[p].latency_ms)
                /\ recorded' = Append(recorded, result[p].latency_ms)
                /\ cache' = cache
          /\ (pc[p] = "trim" /\ pc'[p] = "lock_cache")
             => /\ stats' = [stats EXCEPT
                                !.latencies = LastN(@, LatencyWindow)]
                /\ UNCHANGED <<cache, recorded>>
          /\ (pc[p] = "lock_cache" /\ pc'[p] = "idle")
             => /\ UNCHANGED <<stats, recorded>>
                /\ returned'.body = result[p]
                /\ ~returned'.body.cached]_vars

\* C20: on a miss, whatever the kind, the result leaves the classification
\* step stamped with the time elapsed since the handler started, as read
\* from the clock once the classifier has returned, and that value is the
\* one pushed on the latency window, stored in the cache and returned.
C20_DispatcherStampsLatency ==
    [][\A p \in Workers :
          /\ (pc[p] = "detect" /\ pc'[p] = "lock_stats")
             => \A e \in Elapsed :
                   Classify(p, e) => result'[p].latency_ms = e
          /\ (pc[p] = "lock_stats" /\ pc'[p] = "trim")
             => recorded' = Append(recorded, result[p].latency_ms)
          /\ (pc[p] = "lock_cache" /\ pc'[p] = "idle")
             => /\ returned'.body.latency_ms = result[p].latency_ms
                /\ LruPeek(cache', HashKey(req[p])).latency_ms
                      = result[p].latency_ms]_vars

====
